---- MODULE Spec2Model ----
(***************************************************************************)
(* Graceful restart of a FUSE server (graceful.go, MountWithGraceful).     *)
(*                                                                         *)
(* Every process runs the same program.  Process 1 is started fresh; any   *)
(* other process is launched by Graceful.Restart() of its parent with the  *)
(* handoff record in its environment.  Each process has three threads of   *)
(* control: the main path of MountWithGraceful (mpc), the serving          *)
(* goroutine started by MountWithGraceful (spc) and the signal watch goroutine  *)
(* watchDaemon together with the restart callback it runs (wpc).           *)
(***************************************************************************)
EXTENDS Naturals, Integers, Sequences, FiniteSets, TLC

\* ------------------------------------------------------------------ bounds
MaxProc == 3          \* pids 1..MaxProc; exec fails once they are used up
MaxSignals == 2       \* restart signals (SIGHUP) delivered in a behaviour
RestartTimeout == 1   \* polls of the readiness marker (60 in NewGraceful)
MaxEnvLen == 4        \* characters of a handoff record a process is started with
MaxVer == 12          \* protocol major and minor the kernel may negotiate

Procs == 1..MaxProc
NoPid == 0

VARIABLES
    ps,           \* process table: "none" (pid unused), "run", "gone"
                  \* (exited), "panic" (killed by a Go run-time panic)
    parent,       \* pid of the process whose Restart() launched it, or NoPid
    recovered,    \* gr.recovered
    mpc,          \* main path of MountWithGraceful
    spc,          \* serving goroutine
    wpc,          \* watchDaemon and the restart callback it calls
    restarting,   \* gr.restarting
    lock,         \* gr.lock is held
    restartNoti,  \* gr.restartNoti, capacity 1; each signal remembers whether
                  \* it was delivered while a callback was running
    trigger,      \* the signal watchDaemon received last
    startNoti,    \* gr.startNoti, capacity 1 (number of buffered signals)
    goReg,        \* signal.Notify(gr.startNoti, SIGUSR1) has been called
    goDelivered,  \* pids whose startNoti has ever been given a go signal
    stopReq,      \* server.Stop() has been called (Stopped() reports it)
    stopCh,       \* gr.stop is closed
    marker,       \* pids whose readiness marker file exists in runDir
    child,        \* childPid of the Restart() of the current callback
    polls,        \* loop counter i of Restart()
    cbErr,        \* what Restart() returned to the callback invoked last
    cbCount,      \* invocations of the restart callback so far
    sigCount,     \* restart signals delivered so far
    env,          \* _GRACEFUL_RESTART in the environment of the process, a
                  \* sequence of characters (<<>>: not set)
    conn,         \* gr.conn: state, protocol.Major, protocol.Minor and
                  \* whether newConnection (the handshake) built it
    dev,          \* gr.dev: "none", "mount" (from mount) or "fd3" (inherited)
    markerMade,   \* per pid, how often its readiness marker was created
    markerGone    \* per pid, how often its readiness marker was removed

vars == <<ps, parent, recovered, mpc, spc, wpc, restarting, lock, restartNoti,
          trigger, startNoti, goReg, goDelivered, stopReq, stopCh, marker,
          child, polls, cbErr, cbCount, sigCount, env, conn, dev, markerMade,
          markerGone>>

\* ErrGRestartFailed, ErrGRestartChildNotReady, nil; "none": no Restart() yet
ErrNil == "nil"
ErrGRestartFailed == "failed"
ErrGRestartChildNotReady == "notready"
Errors == {"none", ErrNil, ErrGRestartFailed, ErrGRestartChildNotReady}

ChanCap == 1

\* ------------------------------------------- the handoff record (strings)
\* A Go string is modelled as a sequence of one-character strings.
Digits == <<"0", "1", "2", "3", "4", "5", "6", "7", "8", "9">>
IsDigit(c) == \E i \in 1..Len(Digits) : Digits[i] = c
DigitVal(c) == IF IsDigit(c)
               THEN (CHOOSE i \in 1..Len(Digits) : Digits[i] = c) - 1
               ELSE 0

\* strconv.Itoa
RECURSIVE Itoa(_)
Itoa(n) ==
    IF n < 0 THEN <<"-">> \o Itoa(0 - n)
    ELSE IF n < Len(Digits) THEN <<Digits[n + 1]>>
    ELSE Itoa(n \div Len(Digits)) \o <<Digits[(n % Len(Digits)) + 1]>>

\* strings.Split(s, sep) for a one-character separator; Split("") is [""]
RECURSIVE Split(_, _)
Split(s, sep) ==
    IF \A i \in 1..Len(s) : s[i] # sep
    THEN <<s>>
    ELSE LET i == CHOOSE k \in 1..Len(s) :
                      s[k] = sep /\ \A j \in 1..(k - 1) : s[j] # sep
         IN  <<SubSeq(s, 1, i - 1)>> \o Split(SubSeq(s, i + 1, Len(s)), sep)

\* strings.Join(fields, sep)
RECURSIVE StringsJoin(_, _)
StringsJoin(fields, sep) ==
    IF fields = <<>> THEN <<>>
    ELSE IF Len(fields) = 1 THEN Head(fields)
    ELSE Head(fields) \o <<sep>> \o StringsJoin(Tail(fields), sep)

\* strconv.Atoi: an optional sign, then one or more decimal digits.  (The
\* range error of Atoi needs more digits than the records drawn here have.)
Unsigned(f) == IF f # <<>> /\ Head(f) \in {"+", "-"} THEN Tail(f) ELSE f
AtoiErr(f) ==
    LET d == Unsigned(f) IN d = <<>> \/ \E i \in 1..Len(d) : ~IsDigit(d[i])
RECURSIVE DigitsVal(_)
DigitsVal(d) ==
    IF d = <<>> THEN 0
    ELSE DigitsVal(SubSeq(d, 1, Len(d) - 1)) * Len(Digits) + DigitVal(d[Len(d)])
AtoiVal(f) ==
    IF AtoiErr(f) THEN 0
    ELSE IF Head(f) = "-" THEN 0 - DigitsVal(Unsigned(f))
    ELSE DigitsVal(Unsigned(f))

\* A uint32 is kept as its two 16-bit halves.  uint32(x) of an int x keeps
\* the low 32 bits: uint32(-1) is 65535 * 65536 + 65535; int(u) of a uint32
\* u is its value (int has 64 bits).
Uint32(x) == [hi |-> (x \div 65536) % 65536, lo |-> x % 65536]
IntOf(u) == u.hi * 65536 + u.lo

\* gr.conn
NoConn == [state |-> "none", major |-> Uint32(0), minor |-> Uint32(0),
           handshake |-> FALSE]
Connection(major, minor, hs) ==
    [state |-> "open", major |-> major, minor |-> minor, handshake |-> hs]

\* Restart(): Itoa(int(Major)), Itoa(int(Minor)) joined by ","
EncodeSwapped(c) ==
    StringsJoin(<<Itoa(IntOf(c.minor)), Itoa(IntOf(c.major))>>, ",")
Encode(c) == StringsJoin(<<Itoa(IntOf(c.major)), Itoa(IntOf(c.minor))>>, ",")

\* GetConnection of a recovered process returns an error: the record is
\* empty, strings.Split does not give two fields, or Atoi fails on a field.
DecodeErrIgnoresAtoi(e) ==
    LET version == Split(e, ",") IN e = <<>> \/ Len(version) # 2
DecodeErr(e) ==
    LET version == Split(e, ",") IN
    IF e = <<>> THEN TRUE
    ELSE IF Len(version) # 2 THEN TRUE
    ELSE IF AtoiErr(version[1]) THEN TRUE
    ELSE AtoiErr(version[2])

\* GetConnection of a recovered process without an error: the connection
\* is built from the record, newConnection is not called.
Decode(e) ==
    LET version == Split(e, ",") IN
    Connection(Uint32(AtoiVal(version[1])), Uint32(AtoiVal(version[2])), FALSE)

\* newConnection: the handshake with the kernel negotiates a version.
KernelVersion == <<7, 31>>
newConnection(v) == Connection(Uint32(v[1]), Uint32(v[2]), TRUE)

\* positions of watchDaemon inside the restart callback
CbStates == {"launch", "poll", "stop", "kill", "close"}
InCallback(p) == wpc[p] \in CbStates

Children(p) == {q \in Procs : parent[q] = p}

TypeOK ==
    /\ ps \in [Procs -> {"none", "run", "gone", "panic"}]
    /\ parent \in [Procs -> Procs \cup {NoPid}]
    /\ recovered \in [Procs -> BOOLEAN]
    /\ mpc \in [Procs -> {"none", "start", "ready", "mounted"}]
    /\ spc \in [Procs -> {"none", "wait", "recv", "serving", "stopwait", "joined"}]
    /\ wpc \in [Procs -> {"none", "select", "locked", "exit"} \cup CbStates]
    /\ restarting \in [Procs -> BOOLEAN]
    /\ lock \in [Procs -> BOOLEAN]
    /\ restartNoti \in [Procs -> Seq({"idle", "busy"})]
    /\ \A p \in Procs : Len(restartNoti[p]) <= ChanCap
    /\ trigger \in [Procs -> {"none", "idle", "busy"}]
    /\ startNoti \in [Procs -> 0..ChanCap]
    /\ goReg \in [Procs -> BOOLEAN]
    /\ goDelivered \subseteq Procs
    /\ stopReq \in [Procs -> BOOLEAN]
    /\ stopCh \in [Procs -> BOOLEAN]
    /\ marker \subseteq Procs
    /\ child \in [Procs -> Procs \cup {NoPid}]
    /\ polls \in [Procs -> 0..RestartTimeout]
    /\ cbErr \in [Procs -> Errors]
    /\ cbCount \in [Procs -> 0..MaxSignals]
    /\ sigCount \in 0..MaxSignals
    /\ DOMAIN env = Procs /\ DOMAIN conn = Procs
    /\ \A p \in Procs : conn[p].state \in {"none", "open", "closed"}
    /\ dev \in [Procs -> {"none", "mount", "fd3"}]
    /\ markerMade \in [Procs -> 0..MaxSignals]
    /\ markerGone \in [Procs -> 0..MaxSignals]

\* ------------------------------------------------------------------- Init
\* Process 1 has been started with the record e in its environment.
InitEnv(e) ==
    /\ ps = [p \in Procs |-> IF p = 1 THEN "run" ELSE "none"]
    /\ parent = [p \in Procs |-> NoPid]
    /\ recovered = [p \in Procs |-> FALSE]
    /\ mpc = [p \in Procs |-> IF p = 1 THEN "start" ELSE "none"]
    /\ spc = [p \in Procs |-> "none"]
    /\ wpc = [p \in Procs |-> "none"]
    /\ restarting = [p \in Procs |-> FALSE]
    /\ lock = [p \in Procs |-> FALSE]
    /\ restartNoti = [p \in Procs |-> <<>>]
    /\ trigger = [p \in Procs |-> "none"]
    /\ startNoti = [p \in Procs |-> 0]
    /\ goReg = [p \in Procs |-> FALSE]
    /\ goDelivered = {}
    /\ stopReq = [p \in Procs |-> FALSE]
    /\ stopCh = [p \in Procs |-> FALSE]
    /\ marker = {}
    /\ child = [p \in Procs |-> NoPid]
    /\ polls = [p \in Procs |-> 0]
    /\ cbErr = [p \in Procs |-> "none"]
    /\ cbCount = [p \in Procs |-> 0]
    /\ sigCount = 0
    /\ env = [p \in Procs |-> IF p = 1 THEN e ELSE <<>>]
    /\ conn = [p \in Procs |-> NoConn]
    /\ dev = [p \in Procs |-> "none"]
    /\ markerMade = [p \in Procs |-> 0]
    /\ markerGone = [p \in Procs |-> 0]

\* Process 1 has been started by hand, without the handoff record.
Init == InitEnv(<<>>)

\* ------------------------------------------------------- process lifetime
\* A process that ends loses its memory: threads, channels, flags.  What it
\* left in the file system (marker) and what it did (cbErr, cbCount, child,
\* goDelivered) stays.
Terminate(p, how) ==
    /\ ps' = [ps EXCEPT ![p] = how]
    /\ mpc' = [mpc EXCEPT ![p] = "none"]
    /\ spc' = [spc EXCEPT ![p] = "none"]
    /\ wpc' = [wpc EXCEPT ![p] = "none"]
    /\ restarting' = [restarting EXCEPT ![p] = FALSE]
    /\ lock' = [lock EXCEPT ![p] = FALSE]
    /\ restartNoti' = [restartNoti EXCEPT ![p] = <<>>]
    /\ trigger' = [trigger EXCEPT ![p] = "none"]
    /\ startNoti' = [startNoti EXCEPT ![p] = 0]
    /\ goReg' = [goReg EXCEPT ![p] = FALSE]
    /\ stopReq' = [stopReq EXCEPT ![p] = FALSE]
    /\ stopCh' = [stopCh EXCEPT ![p] = FALSE]
    /\ polls' = [polls EXCEPT ![p] = 0]

\* ------------------------------------------- main path, MountWithGraceful
\* os.Getenv("_GRACEFUL_RESTART") # "": Restart() of the parent set the
\* variable before the exec, a process started by hand has none.
HandoffEnv(p) == env[p] # <<>>

\* checkRecover: gr.recovered = true when the handoff record is present.
checkRecover(p) == HandoffEnv(p)

\* The first statement of the serving goroutine is gr.ShouldWaitParent.
GoroutineEntryNoWait == "serving"
GoroutineEntry == "wait"

\* GetDev: a recovered process takes descriptor 3, a fresh one mounts.
GetDev(p) == IF checkRecover(p) THEN "fd3" ELSE "mount"

\* GetConnection returns an error.  For a fresh process that is an error of
\* newConnection, possible at any start.
GetConnectionErr(p) == IF checkRecover(p) THEN DecodeErr(env[p]) ELSE TRUE
GetConnectionOk(p) == IF checkRecover(p) THEN ~DecodeErr(env[p]) ELSE TRUE

\* gr.conn after GetConnection returned nil
GetConnection(p) ==
    IF checkRecover(p) THEN Decode(env[p]) ELSE newConnection(KernelVersion)

\* NewGraceful, GetDev, GetConnection, then `go func() {...}()`.
Startup(p) ==
    /\ ps[p] = "run" /\ mpc[p] = "start"
    /\ GetConnectionOk(p)
    /\ recovered' = [recovered EXCEPT ![p] = checkRecover(p)]
    /\ dev' = [dev EXCEPT ![p] = GetDev(p)]
    /\ conn' = [conn EXCEPT ![p] = GetConnection(p)]
    /\ spc' = [spc EXCEPT ![p] = GoroutineEntry]
    /\ mpc' = [mpc EXCEPT ![p] = "ready"]
    /\ UNCHANGED <<ps, parent, wpc, restarting, lock, restartNoti, trigger,
                   startNoti, goReg, goDelivered, stopReq, stopCh, marker,
                   child, polls, cbErr, cbCount, sigCount>>
    /\ UNCHANGED <<env, markerMade, markerGone>>

\* GetConnection returns an error: MountWithGraceful returns "newConnection:
\* ..." before the serving goroutine is started and before Ready; the host,
\* left without a mount, ends the process.
StartupFail(p) ==
    /\ ps[p] = "run" /\ mpc[p] = "start"
    /\ GetConnectionErr(p)
    /\ recovered' = [recovered EXCEPT ![p] = checkRecover(p)]
    /\ dev' = [dev EXCEPT ![p] = GetDev(p)]
    /\ Terminate(p, "gone")
    /\ UNCHANGED <<parent, goDelivered, marker, child, cbErr, cbCount,
                   sigCount, env, conn, markerMade, markerGone>>

\* Ready: os.OpenFile(childPath, O_WRONLY|O_CREATE) by a recovered process.
CreateMarkerAlways(m, p) == m \cup {p}
CreateMarker(m, p) == IF recovered[p] THEN m \cup {p} ELSE m

\* Ready succeeds: pid file, marker, `go gr.watchDaemon()`, signal.Notify.
Ready(p) ==
    /\ ps[p] = "run" /\ mpc[p] = "ready"
    /\ marker' = CreateMarker(marker, p)
    /\ markerMade' = [markerMade EXCEPT ![p] =
           IF p \in CreateMarker(marker, p) \ marker THEN @ + 1 ELSE @]
    /\ wpc' = [wpc EXCEPT ![p] = "select"]
    /\ mpc' = [mpc EXCEPT ![p] = "mounted"]
    /\ UNCHANGED <<ps, parent, recovered, spc, restarting, lock, restartNoti,
                   trigger, startNoti, goReg, goDelivered, stopReq, stopCh,
                   child, polls, cbErr, cbCount, sigCount>>
    /\ UNCHANGED <<env, conn, dev, markerGone>>

\* Ready fails (WritePidFile error): MountWithGraceful returns "Not get
\* ready." and the host, left without a mount, ends the process; no marker
\* has been created.
ReadyFail(p) ==
    /\ ps[p] = "run" /\ mpc[p] = "ready"
    /\ Terminate(p, "gone")
    /\ UNCHANGED <<parent, recovered, goDelivered, marker, child, cbErr,
                   cbCount, sigCount>>
    /\ UNCHANGED <<env, conn, dev, markerMade, markerGone>>

\* ------------------------------------------------------ serving goroutine
\* ShouldWaitParent, first half: a fresh process does not wait; a recovered
\* one registers gr.startNoti for the go signal.
ShouldWaitParent(p) ==
    /\ ps[p] = "run" /\ spc[p] = "wait"
    /\ IF recovered[p]
       THEN /\ goReg' = [goReg EXCEPT ![p] = TRUE]
            /\ spc' = [spc EXCEPT ![p] = "recv"]
       ELSE /\ goReg' = goReg
            /\ spc' = [spc EXCEPT ![p] = "serving"]
    /\ UNCHANGED <<ps, parent, recovered, mpc, wpc, restarting, lock,
                   restartNoti, trigger, startNoti, goDelivered, stopReq,
                   stopCh, marker, child, polls, cbErr, cbCount, sigCount>>
    /\ UNCHANGED <<env, conn, dev, markerMade, markerGone>>

\* ShouldWaitParent, second half: <-gr.startNoti, then server.ServeOps.
WaitGo(p) ==
    /\ ps[p] = "run" /\ spc[p] = "recv"
    /\ startNoti[p] > 0
    /\ startNoti' = [startNoti EXCEPT ![p] = @ - 1]
    /\ spc' = [spc EXCEPT ![p] = "serving"]
    /\ UNCHANGED <<ps, parent, recovered, mpc, wpc, restarting, lock,
                   restartNoti, trigger, goReg, goDelivered, stopReq, stopCh,
                   marker, child, polls, cbErr, cbCount, sigCount>>
    /\ UNCHANGED <<env, conn, dev, markerMade, markerGone>>

\* Server.Stopped()
Stopped(p) == stopReq[p]

\* server.ServeOps returns once the stop request is seen; Stopped() is then
\* true and the goroutine blocks on <-gr.stop.
ServeOpsReturn(p) ==
    /\ ps[p] = "run" /\ spc[p] = "serving"
    /\ Stopped(p)
    /\ spc' = [spc EXCEPT ![p] = "stopwait"]
    /\ UNCHANGED <<ps, parent, recovered, mpc, wpc, restarting, lock,
                   restartNoti, trigger, startNoti, goReg, goDelivered,
                   stopReq, stopCh, marker, child, polls, cbErr, cbCount,
                   sigCount>>
    /\ UNCHANGED <<env, conn, dev, markerMade, markerGone>>

\* <-gr.stop returns, gr.conn.close(), close(mfs.joinStatusAvailable).
Join(p) ==
    /\ ps[p] = "run" /\ spc[p] = "stopwait"
    /\ stopCh[p]
    /\ spc' = [spc EXCEPT ![p] = "joined"]
    /\ conn' = [conn EXCEPT ![p].state = "closed"]
    /\ UNCHANGED <<ps, parent, recovered, mpc, wpc, restarting, lock,
                   restartNoti, trigger, startNoti, goReg, goDelivered,
                   stopReq, stopCh, marker, child, polls, cbErr, cbCount,
                   sigCount>>
    /\ UNCHANGED <<env, dev, markerMade, markerGone>>

\* "then main process exits" (comment of the serving goroutine): once the
\* join status is published the host returns from Join and ends the process.
Exit(p) ==
    /\ ps[p] = "run" /\ spc[p] = "joined"
    /\ Terminate(p, "gone")
    /\ UNCHANGED <<parent, recovered, goDelivered, marker, child, cbErr,
                   cbCount, sigCount>>
    /\ UNCHANGED <<env, conn, dev, markerMade, markerGone>>

\* ------------------------------------------------- restart signal, SIGHUP
\* signal.Notify never blocks: a signal that finds the channel full is
\* dropped.  The tag records when the signal arrived.
NotifySend(ch, tag) == IF Len(ch) < ChanCap THEN Append(ch, tag) ELSE ch

\* The restart signal is delivered to a process that has registered for it.
SendRestart(p) ==
    /\ ps[p] = "run" /\ wpc[p] # "none"
    /\ sigCount < MaxSignals
    /\ sigCount' = sigCount + 1
    /\ restartNoti' = [restartNoti EXCEPT ![p] =
           NotifySend(@, IF InCallback(p) THEN "busy" ELSE "idle")]
    /\ UNCHANGED <<ps, parent, recovered, mpc, spc, wpc, restarting, lock,
                   trigger, startNoti, goReg, goDelivered, stopReq, stopCh,
                   marker, child, polls, cbErr, cbCount>>
    /\ UNCHANGED <<env, conn, dev, markerMade, markerGone>>

\* ------------------------------------------------------------ watchDaemon
\* case <-gr.restartNoti: gr.lock.Lock()
WatchRecv(p) ==
    /\ ps[p] = "run" /\ wpc[p] = "select"
    /\ restartNoti[p] # <<>>
    /\ ~lock[p]
    /\ trigger' = [trigger EXCEPT ![p] = Head(restartNoti[p])]
    /\ restartNoti' = [restartNoti EXCEPT ![p] = Tail(@)]
    /\ lock' = [lock EXCEPT ![p] = TRUE]
    /\ wpc' = [wpc EXCEPT ![p] = "locked"]
    /\ UNCHANGED <<ps, parent, recovered, mpc, spc, restarting, startNoti,
                   goReg, goDelivered, stopReq, stopCh, marker, child, polls,
                   cbErr, cbCount, sigCount>>
    /\ UNCHANGED <<env, conn, dev, markerMade, markerGone>>

\* gr.restarting = true, under the lock
SetRestartingSkipped == FALSE
SetRestarting == TRUE

\* if gr.restarting { Unlock; continue } else { gr.restarting = true;
\* Unlock; err = gr.restartCb() ... }: the callback starts in Restart().
WatchCheck(p) ==
    /\ ps[p] = "run" /\ wpc[p] = "locked"
    /\ lock' = [lock EXCEPT ![p] = FALSE]
    /\ IF restarting[p]
       THEN /\ wpc' = [wpc EXCEPT ![p] = "select"]
            /\ UNCHANGED <<restarting, cbCount, cbErr, child>>
       ELSE /\ restarting' = [restarting EXCEPT ![p] = SetRestarting]
            /\ wpc' = [wpc EXCEPT ![p] = "launch"]
            /\ cbCount' = [cbCount EXCEPT ![p] = @ + 1]
            /\ cbErr' = [cbErr EXCEPT ![p] = "none"]
            /\ child' = [child EXCEPT ![p] = NoPid]
    /\ UNCHANGED <<ps, parent, recovered, mpc, spc, restartNoti, trigger,
                   startNoti, goReg, goDelivered, stopReq, stopCh, marker,
                   polls, sigCount>>
    /\ UNCHANGED <<env, conn, dev, markerMade, markerGone>>

\* The callback: after gr.Restart() returned err, `return err` only for
\* ErrGRestartFailed; for nil and for ErrGRestartChildNotReady ("we will
\* still exit") it goes on to server.Stop().
CallbackProceedsAlways(err) == TRUE
CallbackProceeds(err) == err # ErrGRestartFailed

\* watchDaemon after the callback: `if err == nil { return }`.
WatchExitsNever(err) == FALSE
WatchExits(err) == err = ErrNil

\* gr.restarting = false, after a failed callback
ClearRestartingSkipped == TRUE
ClearRestarting == FALSE

\* watchDaemon takes the callback's result err: it returns on nil, else
\* clears gr.restarting (without the lock) and loops.
CallbackReturns(p, err) ==
    IF WatchExits(err)
    THEN /\ wpc' = [wpc EXCEPT ![p] = "exit"]
         /\ restarting' = restarting
    ELSE /\ wpc' = [wpc EXCEPT ![p] = "select"]
         /\ restarting' = [restarting EXCEPT ![p] = ClearRestarting]

\* gr.Restart() returns (c, err) to the callback.
RestartReturns(p, c, err) ==
    /\ cbErr' = [cbErr EXCEPT ![p] = err]
    /\ child' = [child EXCEPT ![p] = c]
    /\ IF CallbackProceeds(err)
       THEN /\ wpc' = [wpc EXCEPT ![p] = "stop"]
            /\ restarting' = restarting
       ELSE CallbackReturns(p, err)

\* -------------------------------------------------------------- Restart()
FreePids == {c \in Procs : ps[c] = "none"}
NextPid == CHOOSE c \in FreePids : \A d \in FreePids : c <= d

\* child.ExtraFiles = []*os.File{gr.dev}: the child inherits the descriptor
\* as its descriptor 3; gr.dev of the parent stays as it is.
ExtraFilesReleased(d) == "none"
ExtraFiles(d) == d

\* child.Start() fails: `return 0, ErrGRestartFailed`
LaunchErrorNotReady == ErrGRestartChildNotReady
LaunchError == ErrGRestartFailed

\* os.Setenv, exec.Command, child.Start() returns an error (always possible;
\* certain once the pid space is used up).
LaunchFail(p) ==
    /\ ps[p] = "run" /\ wpc[p] = "launch"
    /\ env' = [env EXCEPT ![p] = Encode(conn[p])]
    /\ RestartReturns(p, NoPid, LaunchError)
    /\ UNCHANGED <<ps, parent, recovered, mpc, spc, lock, restartNoti,
                   trigger, startNoti, goReg, goDelivered, stopReq, stopCh,
                   marker, polls, cbCount, sigCount>>
    /\ dev' = [dev EXCEPT ![p] = ExtraFiles(@)]
    /\ UNCHANGED <<conn, markerMade, markerGone>>

\* child.Start() succeeds: the child runs with the handoff record in its
\* environment; childPid = child.Process.Pid; the poll loop starts at i = 0.
LaunchOk(p) ==
    /\ ps[p] = "run" /\ wpc[p] = "launch"
    /\ FreePids # {}
    /\ LET c == NextPid IN
       /\ ps' = [ps EXCEPT ![c] = "run"]
       /\ parent' = [parent EXCEPT ![c] = p]
       /\ mpc' = [mpc EXCEPT ![c] = "start"]
       /\ child' = [child EXCEPT ![p] = c]
       /\ env' = [env EXCEPT ![p] = Encode(conn[p]), ![c] = Encode(conn[p])]
    /\ polls' = [polls EXCEPT ![p] = 0]
    /\ wpc' = [wpc EXCEPT ![p] = "poll"]
    /\ UNCHANGED <<recovered, spc, restarting, lock, restartNoti, trigger,
                   startNoti, goReg, goDelivered, stopReq, stopCh, marker,
                   cbErr, cbCount, sigCount>>
    /\ dev' = [dev EXCEPT ![p] = ExtraFiles(@)]
    /\ UNCHANGED <<conn, markerMade, markerGone>>

\* os.Stat(childPath) does not report IsNotExist
MarkerSeen(c) == c \in marker

\* os.Remove(childPath)
RemoveMarkerSkipped(m, c) == m
RemoveMarker(m, c) == m \ {c}

\* One iteration of `for i := 0; i < gr.RestartTimeout; i++`: the marker is
\* there (remove it, return childPid, nil) or not (sleep a second, i++).
Poll(p) ==
    /\ ps[p] = "run" /\ wpc[p] = "poll"
    /\ polls[p] < RestartTimeout
    /\ IF MarkerSeen(child[p])
       THEN /\ marker' = RemoveMarker(marker, child[p])
            /\ markerGone' = [markerGone EXCEPT ![child[p]] =
                   IF child[p] \in RemoveMarker(marker, child[p])
                   THEN @ ELSE @ + 1]
            /\ RestartReturns(p, child[p], ErrNil)
            /\ polls' = polls
       ELSE /\ polls' = [polls EXCEPT ![p] = @ + 1]
            /\ UNCHANGED <<marker, markerGone, cbErr, child, wpc, restarting>>
    /\ UNCHANGED <<ps, parent, recovered, mpc, spc, lock, restartNoti,
                   trigger, startNoti, goReg, goDelivered, stopReq, stopCh,
                   cbCount, sigCount>>
    /\ UNCHANGED <<env, conn, dev, markerMade>>

\* os.FindProcess(childPid) returns a nil error.  The program builds for
\* Unix only (syscall.Kill, SIGUSR1), where FindProcess succeeds for every
\* pid, whether or not a process with that pid exists.
FindProcess(c) == TRUE

\* The loop ran out: ErrGRestartChildNotReady when FindProcess finds the
\* child, else (0, ErrGRestartFailed).
Timeout(p) ==
    /\ ps[p] = "run" /\ wpc[p] = "poll"
    /\ polls[p] = RestartTimeout
    /\ IF FindProcess(child[p])
       THEN RestartReturns(p, child[p], ErrGRestartChildNotReady)
       ELSE RestartReturns(p, NoPid, ErrGRestartFailed)
    /\ UNCHANGED <<ps, parent, recovered, mpc, spc, lock, restartNoti,
                   trigger, startNoti, goReg, goDelivered, stopReq, stopCh,
                   marker, polls, cbCount, sigCount>>
    /\ UNCHANGED <<env, conn, dev, markerMade, markerGone>>

\* ------------------------------------- the restart callback after Restart
\* server.Stop(); triggerOps(dir)
CbStop(p) ==
    /\ ps[p] = "run" /\ wpc[p] = "stop"
    /\ stopReq' = [stopReq EXCEPT ![p] = TRUE]
    /\ wpc' = [wpc EXCEPT ![p] = "kill"]
    /\ UNCHANGED <<ps, parent, recovered, mpc, spc, restarting, lock,
                   restartNoti, trigger, startNoti, goReg, goDelivered,
                   stopCh, marker, child, polls, cbErr, cbCount, sigCount>>
    /\ UNCHANGED <<env, conn, dev, markerMade, markerGone>>

\* The go signal reaches gr.startNoti of a running process that has called
\* signal.Notify for it; the Go run time drops SIGUSR1 otherwise.
GoArrives(c) == c # NoPid /\ ps[c] = "run" /\ goReg[c]

\* syscall.Kill(child, syscall.SIGUSR1)
CbKill(p) ==
    /\ ps[p] = "run" /\ wpc[p] = "kill"
    /\ IF GoArrives(child[p])
       THEN /\ startNoti' = [startNoti EXCEPT ![child[p]] =
                                 IF @ < ChanCap THEN @ + 1 ELSE @]
            /\ goDelivered' = goDelivered \cup {child[p]}
       ELSE UNCHANGED <<startNoti, goDelivered>>
    /\ wpc' = [wpc EXCEPT ![p] = "close"]
    /\ UNCHANGED <<ps, parent, recovered, mpc, spc, restarting, lock,
                   restartNoti, trigger, goReg, stopReq, stopCh, marker,
                   child, polls, cbErr, cbCount, sigCount>>
    /\ UNCHANGED <<env, conn, dev, markerMade, markerGone>>

\* close(gr.stop); return err.  Closing a closed channel panics, and a
\* panic in a goroutine ends the process.
CbClose(p) ==
    /\ ps[p] = "run" /\ wpc[p] = "close"
    /\ IF stopCh[p]
       THEN Terminate(p, "panic")
       ELSE /\ stopCh' = [stopCh EXCEPT ![p] = TRUE]
            /\ CallbackReturns(p, cbErr[p])
            /\ UNCHANGED <<ps, mpc, spc, lock, restartNoti, trigger,
                           startNoti, goReg, stopReq, polls>>
    /\ UNCHANGED <<parent, recovered, goDelivered, marker, child, cbErr,
                   cbCount, sigCount>>
    /\ UNCHANGED <<env, conn, dev, markerMade, markerGone>>

\* ------------------------------------------------------------------- Next
Next ==
    \E p \in Procs :
        \/ Startup(p)
        \/ StartupFail(p)
        \/ Ready(p)
        \/ ReadyFail(p)
        \/ ShouldWaitParent(p)
        \/ WaitGo(p)
        \/ ServeOpsReturn(p)
        \/ Join(p)
        \/ Exit(p)
        \/ SendRestart(p)
        \/ WatchRecv(p)
        \/ WatchCheck(p)
        \/ LaunchFail(p)
        \/ LaunchOk(p)
        \/ Poll(p)
        \/ Timeout(p)
        \/ CbStop(p)
        \/ CbKill(p)
        \/ CbClose(p)

Spec == Init /\ [][Next]_vars

\* The Go scheduler runs a goroutine that can run: watchDaemon is not
\* starved at its select nor between Lock and Unlock.
FairSpec == Spec /\ \A p \in Procs : WF_vars(WatchRecv(p) \/ WatchCheck(p))

\* No goroutine is starved: the main path, the serving goroutine and
\* watchDaemon with the callback and Restart() it runs each take their next
\* step when they can.  (ServeOps returns after Stop() because triggerOps
\* sends it an op; the poll loop of Restart() sleeps a second at a time.)
\* When restart signals arrive and when the host exits is left open.
LiveSpec ==
    /\ Spec
    /\ \A p \in Procs :
          /\ WF_vars(Startup(p) \/ StartupFail(p) \/ Ready(p) \/ ReadyFail(p))
          /\ WF_vars(ShouldWaitParent(p) \/ WaitGo(p) \/ ServeOpsReturn(p)
                         \/ Join(p))
          /\ WF_vars(WatchRecv(p) \/ WatchCheck(p) \/ LaunchFail(p)
                         \/ LaunchOk(p) \/ Poll(p) \/ Timeout(p)
                         \/ CbStop(p) \/ CbKill(p) \/ CbClose(p))

\* --------------------------------------- start with any handoff record
\* Process 1 is started with a record in its environment: any short string
\* over EnvAlphabet, or what Restart() of a parent writes for a version the
\* kernel negotiated with it.  Only the main path and the first step of the
\* serving goroutine run.
EnvAlphabet == {"0", "1", "5", "7", "-", "+", ",", "x"}
Strings(n) == UNION {[1..k -> EnvAlphabet] : k \in 0..n}
Versions == (0..MaxVer) \X (0..MaxVer)
HandoffRecords ==
    Strings(MaxEnvLen) \cup {Encode(newConnection(v)) : v \in Versions}

StartInit == \E e \in HandoffRecords : InitEnv(e)

StartNext ==
    \E p \in Procs :
        \/ Startup(p)
        \/ StartupFail(p)
        \/ Ready(p)
        \/ ReadyFail(p)
        \/ ShouldWaitParent(p)

StartSpec == StartInit /\ [][StartNext]_vars

\* ------------------------------------------------------------------ claims
Running(p) == ps[p] = "run"
Reading(p) == Running(p) /\ spc[p] = "serving"
\* the callback of p has called server.Stop() and has not returned yet
StopCalled(p) == Running(p) /\ wpc[p] \in {"kill", "close"}
\* the callback of p invoked last has returned err
Returned(p, err) == Running(p) /\ ~InCallback(p) /\ cbErr[p] = err

\* C1: during a handoff (Restart() of the parent returned nil for this
\* child) the serving loops of the parent and of the child never both read
\* the device: when the child is in ServeOps the parent has left it.
C1_SingleReader ==
    \A p, q \in Procs :
        (parent[q] = p /\ child[p] = q /\ cbErr[p] = ErrNil /\ Reading(q))
            => ~Reading(p)

C3_NoServeBeforeGo ==
    \A q \in Procs :
        (recovered[q] /\ spc[q] \in {"serving", "stopwait", "joined"})
            => q \in goDelivered

C3_Witness ==
    \E q \in Procs : recovered[q] /\ Reading(q) /\ q \in goDelivered

\* C4: a restart signal delivered while a callback was running does not
\* start another callback: every running callback was started by a signal
\* that arrived while none was running.
C4_Debounce ==
    \A p \in Procs : (Running(p) /\ InCallback(p)) => trigger[p] = "idle"

\* C5: at most one restart in progress: gr.restarting is set for the whole of
\* a callback invocation and clear whenever watchDaemon waits for or checks
\* a signal, so an invocation starts only when none is running.
C5_OneRestart ==
    \A p \in Procs :
        /\ (Running(p) /\ InCallback(p)) => restarting[p]
        /\ wpc[p] \in {"select", "locked"} => ~restarting[p]

C5_Witness ==
    \E p \in Procs :
        /\ Running(p) /\ wpc[p] = "poll" /\ restarting[p]
        /\ restartNoti[p] = <<"busy">> /\ sigCount = MaxSignals

\* C6: once the callback has returned nil watchDaemon has exited for good:
\* no further invocation, no further child; if that was the first invocation
\* exactly one child has been spawned.
C6_ExitAfterSuccess ==
    /\ [](\A p \in Procs :
             /\ Returned(p, ErrNil) => wpc[p] = "exit"
             /\ (Returned(p, ErrNil) /\ cbCount[p] = 1)
                    => Cardinality(Children(p)) = 1)
    /\ [][\A p \in Procs :
             Returned(p, ErrNil)
                => /\ cbCount'[p] = cbCount[p]
                   /\ \A q \in Procs : parent'[q] = p => parent[q] = p
                   /\ Running(p)' => wpc'[p] = "exit"
         ]_vars

C6_Witness ==
    \E p \in Procs :
        /\ Returned(p, ErrNil) /\ wpc[p] = "exit"
        /\ restartNoti[p] # <<>> /\ sigCount = 2
        /\ Cardinality(Children(p)) = 1

\* a failed attempt is over and a restart signal waits in gr.restartNoti
RetryPending(p, errs) ==
    /\ Running(p) /\ wpc[p] = "select"
    /\ cbErr[p] \in errs
    /\ restartNoti[p] # <<>>

C9_TimeoutTellsGone ==
    [][\A p \in Procs :
          (  wpc[p] = "poll" /\ polls[p] = RestartTimeout
          /\ wpc'[p] # "poll" /\ Running(p)')
             => cbErr'[p] = IF ps[child[p]] = "run"
                            THEN ErrGRestartChildNotReady
                            ELSE ErrGRestartFailed
      ]_vars

\* C10: when the launch fails Restart() returns (0, ErrGRestartFailed) at
\* once, without a poll, and the callback returns without server.Stop(), go
\* signal or close(gr.stop): the serving goroutine is where it was and
\* watchDaemon is back at its select with the flag clear.
C10_LaunchFailure ==
    [][\A p \in Procs :
          (wpc[p] = "launch" /\ wpc'[p] # "launch" /\ ps' = ps)
             => /\ cbErr'[p] = ErrGRestartFailed /\ child'[p] = NoPid
                /\ polls' = polls /\ marker' = marker
                /\ stopReq' = stopReq /\ stopCh' = stopCh
                /\ startNoti' = startNoti /\ goDelivered' = goDelivered
                /\ spc' = spc
                /\ wpc'[p] = "select" /\ ~restarting'[p]
      ]_vars

C10_Witness ==
    \E p \in Procs :
        /\ Returned(p, ErrGRestartFailed) /\ wpc[p] = "select"
        /\ Children(p) = {} /\ Reading(p) /\ ~stopReq[p]
        /\ restartNoti[p] # <<>>

\* ------------------------------------------------- claims on the handoff
\* The main path got past GetConnection.
Started(p) == Running(p) /\ mpc[p] \in {"ready", "mounted"}

\* every version with the record Restart() writes for it
EncodedVersions == {<<v, Encode(newConnection(v))>> : v \in Versions}

\* the record of the version 7.31 is "7,31"
RecordOfKernelVersion ==
    Encode(newConnection(KernelVersion)) = <<"7", ",", "3", "1">>

\* C11: for every version (major, minor) a parent's connection holds, the
\* record Restart() writes is "<major>,<minor>", and a process started with
\* it gets from GetConnection (no error) a connection with that major and
\* minor that newConnection did not build.
C11_VersionPreserved ==
    /\ RecordOfKernelVersion
    /\ \A h \in EncodedVersions : \A p \in Procs :
          (env[p] = h[2] /\ mpc[p] # "start")
              => conn[p] = Connection(Uint32(h[1][1]), Uint32(h[1][2]), FALSE)

C11_Witness ==
    \E p \in Procs : \E h \in EncodedVersions :
        /\ h[1][1] = MaxVer /\ h[1][2] < h[1][1]
        /\ Started(p) /\ recovered[p]
        /\ env[p] = h[2]
        /\ IntOf(conn[p].major) = h[1][1] /\ IntOf(conn[p].minor) = h[1][2]
        /\ ~conn[p].handshake

\* a non-empty run of decimal digits: a non-negative integer
NonNegInt(f) == f # <<>> /\ \A i \in 1..Len(f) : IsDigit(f[i])

\* exactly two comma-separated fields, each a non-negative integer
WellFormed(e) ==
    LET fields == Split(e, ",") IN
    IF Len(fields) # 2 THEN FALSE
    ELSE NonNegInt(fields[1]) /\ NonNegInt(fields[2])

\* C12: a recovered process whose record does not consist of exactly two
\* non-negative integers (signed numbers such as "-1,5" included) gets an
\* error from GetConnection: it does not start and has no connection.
C12_DecodeRejects ==
    \A p \in Procs :
        (recovered[p] /\ ~WellFormed(env[p]))
            => ~Started(p) /\ conn[p] = NoConn

\* an optional sign and a non-empty run of decimal digits
Numeric(f) == NonNegInt(f) \/ (f # <<>> /\ Head(f) \in {"+", "-"} /\ NonNegInt(Tail(f)))

\* present, with a wrong field count or a non-numeric field
Malformed(e) ==
    LET fields == Split(e, ",") IN
    IF e = <<>> THEN FALSE
    ELSE IF Len(fields) # 2 THEN TRUE
    ELSE ~Numeric(fields[1]) \/ ~Numeric(fields[2])

\* C13: a process started with a malformed record is marked recovered and
\* ends at startup: no marker, no watchDaemon and no registration for the
\* restart signal, no serving goroutine.
C13_MalformedFailsAtStart ==
    \A p \in Procs :
        (Malformed(env[p]) /\ mpc[p] # "start")
            => /\ recovered[p]
               /\ ps[p] = "gone"
               /\ p \notin marker /\ markerMade[p] = 0
               /\ wpc[p] = "none"
               /\ spc[p] = "none"
               /\ conn[p] = NoConn

C13_Witness ==
    \E p \in Procs :
        /\ Len(Split(env[p], ",")) = 2 /\ Malformed(env[p])
        /\ recovered[p] /\ ps[p] = "gone"

\* Restart() of p takes a step: child.Start(), an iteration of the poll
\* loop, or the return after the loop.
RestartStep(p) ==
    /\ Running(p) /\ wpc[p] \in {"launch", "poll"}
    /\ Running(p)'
    /\ <<wpc[p], polls[p], child[p], cbErr[p]>>' # <<wpc[p], polls[p], child[p], cbErr[p]>>

\* C14: no step of Restart(), so no call of it that returns an error,
\* changes the device handle, the connection with its version or the stop
\* channel, or requests a server stop.
C14_RestartFrame ==
    [][\A p \in Procs :
          RestartStep(p) =>
              /\ dev'[p] = dev[p]
              /\ conn'[p] = conn[p]
              /\ stopCh'[p] = stopCh[p]
              /\ stopReq'[p] = stopReq[p]]_vars

C14_Witness ==
    \E p \in Procs :
        /\ Running(p) /\ wpc[p] = "stop"
        /\ cbErr[p] = ErrGRestartChildNotReady
        /\ dev[p] = "mount" /\ conn[p] = newConnection(KernelVersion)
        /\ ~stopCh[p] /\ ~stopReq[p]

\* C15 as claimed: whenever an invocation of the callback has completed,
\* with nil or with an error, the restart-in-progress flag is false.
C15_FlagClearedAlways ==
    \A p \in Procs :
        \A err \in {ErrNil, ErrGRestartFailed, ErrGRestartChildNotReady} :
            Returned(p, err) => ~restarting[p]

\* C15: the flag is false whenever an invocation of the callback has
\* completed with an error; after a nil result it stays true and
\* watchDaemon has returned.
C15_FlagClearedOnError ==
    \A p \in Procs :
        /\ \A err \in {ErrGRestartFailed, ErrGRestartChildNotReady} :
              Returned(p, err) => ~restarting[p]
        /\ Returned(p, ErrNil) => restarting[p] /\ wpc[p] = "exit"

C15_Witness ==
    \E p \in Procs :
        /\ Returned(p, ErrGRestartChildNotReady)
        /\ wpc[p] = "select" /\ stopCh[p] /\ ~restarting[p]

\* C16: the flag changes only while the lock is held, and the lock is not
\* held while the callback runs.
C16_FlagUnderLock ==
    [][\A p \in Procs :
          (Running(p) /\ Running(p)') =>
              /\ restarting'[p] # restarting[p] => lock[p]
              /\ InCallback(p) => ~lock[p]]_vars

\* C17: the marker of a pid is created at most once, by a recovered process,
\* and removed at most once; a marker that was removed does not come back.
C17_MarkerOnce ==
    \A q \in Procs :
        /\ markerMade[q] <= 1 /\ markerGone[q] <= markerMade[q]
        /\ markerMade[q] = 1 => recovered[q]
        /\ q \in marker => markerMade[q] = 1 /\ markerGone[q] = 0

C17_Witness ==
    \E q \in Procs :
        /\ Running(q) /\ parent[q] # NoPid
        /\ cbCount[parent[q]] = MaxSignals
        /\ markerMade[q] = 1 /\ markerGone[q] = 1 /\ q \notin marker

\* C18: when the callback of a parent whose Restart() returned nil sends the
\* go signal, the child has registered for it.
C18_GoNeverLost ==
    [][\A p \in Procs :
          (Running(p) /\ cbErr[p] = ErrNil
             /\ wpc[p] = "kill" /\ wpc'[p] = "close")
              => goReg[child[p]]]_vars

\* C19: server.Stop() is called only when it has not been called before, and
\* gr.stop is closed only when it is open.
C19_StopAndCloseOnce ==
    [][\A p \in Procs :
          /\ (Running(p) /\ wpc[p] = "stop" /\ wpc'[p] # "stop")
                 => ~stopReq[p]
          /\ (Running(p) /\ wpc[p] = "close" /\ wpc'[p] # "close")
                 => ~stopCh[p]]_vars

\* The serving goroutine of p closes the connection (and publishes the
\* join status) in this step.
ConnCloses(p) == conn[p].state = "open" /\ conn'[p].state = "closed"

\* C20: the connection is closed only after Stopped() was true and the stop
\* channel was closed, which the callback does only after it has sent the
\* go signal; and once Restart() has returned nil the connection is closed
\* in the end.
C20_CloseAfterHandoff ==
    /\ [][\A p \in Procs :
             /\ ConnCloses(p) => Stopped(p) /\ stopCh[p]
             /\ (~stopCh[p] /\ stopCh'[p]) => wpc[p] = "close"
             /\ (wpc[p] # "close" /\ wpc'[p] = "close") => wpc[p] = "kill"]_vars
    /\ \A p \in Procs :
          (Running(p) /\ cbErr[p] = ErrNil) ~> (conn[p].state = "closed")

====
